---- MODULE Spec2Model ----
(***************************************************************************)
(* A model of gpsr_command_understanding/generator/generator.py: the rule  *)
(* and semantics loaders of class Generator and its grounding search       *)
(* (generate_groundings / __populate_with_constraints / ground).           *)
(***************************************************************************)
EXTENDS Integers, Sequences, FiniteSets, TLC

VARIABLES
    rules,            \* self.rules: lhs -> list of right-hand-side trees
    semantics,        \* self.semantics: production tree -> semantics
    knowledge_base,   \* self.knowledge_base.by_name: name -> candidate list, once set
    genTree,          \* the tree the live generate_groundings generator was given
    genState,         \* "none" | "live" | "exhausted" | "raised"
    stack,            \* suspended __populate_with_constraints frames, innermost last
    yielded,          \* what the consumer has pulled from the generator so far
    grounded,         \* outcome of the last ground() call
    lastCall,         \* the last loader call: its arguments, the table it found, its
                      \* outcome and what it did line by line
    ruleLines,        \* history: the lines load_rules took in, with the call's expand flag
    registered,       \* history: the (production, semantics) pairs written, in order
    linesRead         \* history: how many lines the loaders have been given

vars == <<rules, semantics, knowledge_base, genTree, genState, stack, yielded, grounded,
          lastCall, ruleLines, registered, linesRead>>

loaderVars == <<rules, semantics, lastCall, ruleLines, registered, linesRead>>
groundVars == <<knowledge_base, genTree, genState, stack, yielded, grounded>>

(***************************************************************************)
(* Bounds of the model.                                                    *)
(***************************************************************************)
MaxWildcards == 3     \* wildcard occurrences in a tree handed to the search
MaxCandidates == 2    \* length of a knowledge-base candidate list
MaxLines == 2         \* lines handed to the loaders over a behaviour

SeqUpTo(S, n) == UNION {[1..k -> S] : k \in 0..n}
Range(s) == {s[k] : k \in 1..Len(s)}

(***************************************************************************)
(* Trees.  A node is a record; a leaf has no kids.  kind is "tree",        *)
(* "wildcard", "word" (a terminal of the grammar) or "value" (a candidate  *)
(* of the knowledge base put in place of a wildcard).                      *)
(***************************************************************************)
Leaf(kind, name, id) == [kind |-> kind, name |-> name, id |-> id, kids |-> <<>>]
WildCard(name, id) == Leaf("wildcard", name, id)
Word(w) == Leaf("word", w, 0)
Value(v) == Leaf("value", v, 0)
Tree(data, children) == [kind |-> "tree", name |-> data, id |-> 0, kids |-> children]

\* util.get_wildcards: the wildcard occurrences of a tree, depth first, left to
\* right.  The search uses the result as a sequence: "not wildcards" is its
\* emptiness and next(wildcards) its first element.
RECURSIVE get_wildcards(_)
get_wildcards(tree) ==
    LET RECURSIVE scan(_)
        scan(kids) ==
            IF kids = <<>> THEN <<>>
            ELSE LET c == Head(kids)
                 IN (IF c.kind = "tree" THEN get_wildcards(c)
                     ELSE IF c.kind = "wildcard" THEN <<c>> ELSE <<>>)
                    \o scan(Tail(kids))
    IN scan(tree.kids)

\* util.replace_child_in_tree: every child equal to the target becomes the replacement
RECURSIVE replace_child_in_tree(_, _, _)
replace_child_in_tree(tree, child_target, replacement) ==
    [tree EXCEPT !.kids =
        [i \in 1..Len(tree.kids) |->
            LET c == tree.kids[i]
            IN IF c = child_target THEN Value(replacement)
               ELSE IF c.kind = "tree"
                    THEN replace_child_in_tree(c, child_target, replacement)
                    ELSE c]]

\* the leaves of a tree in traversal order
RECURSIVE Fringe(_)
Fringe(tree) ==
    LET RECURSIVE scan(_)
        scan(kids) ==
            IF kids = <<>> THEN <<>>
            ELSE (IF Head(kids).kind = "tree" THEN Fringe(Head(kids)) ELSE <<Head(kids)>>)
                 \o scan(Tail(kids))
    IN scan(tree.kids)

(***************************************************************************)
(* Inputs of the search.                                                   *)
(***************************************************************************)
Names == {"person", "object"}
Candidates == [person |-> {"alice", "bob"}, object |-> {"alice"}]

\* id 0 stands for the empty id (falsy in "if wildcard.id")
WildCards == {WildCard("person", 0), WildCard("person", 1), WildCard("person", 2),
              WildCard("object", 2)}

\* a command tree over a sequence of wildcards: a flat tree for at most one
\* wildcard, otherwise the tail sits in a nested noun phrase
CommandTree(ws) ==
    IF Len(ws) <= 1 THEN Tree("command", <<Word("find")>> \o ws)
    ELSE Tree("command", <<Head(ws), Tree("np", <<Word("the")>> \o Tail(ws))>>)

Trees == {CommandTree(ws) : ws \in SeqUpTo(WildCards, MaxWildcards)}

KnowledgeBases ==
    {[n \in Names |-> IF n = "person" THEN p ELSE o] :
        p \in SeqUpTo(Candidates.person, MaxCandidates),
        o \in SeqUpTo(Candidates.object, MaxCandidates)}

(***************************************************************************)
(* The constraint map: a dict from wildcard to either a set of wildcards   *)
(* or, once the wildcard is resolved, the candidate it was given.          *)
(***************************************************************************)
SetEntry(s) == [isSet |-> TRUE, set |-> s, val |-> "-"]
FixedEntry(v) == [isSet |-> FALSE, set |-> {}, val |-> v]
EmptyDict == [w \in {} |-> SetEntry({})]
Put(d, k, v) == [x \in DOMAIN d \cup {k} |-> IF x = k THEN v ELSE d[x]]
\* defaultdict(set).__getitem__: a missing key is inserted with an empty set
Touch(d, k) == IF k \in DOMAIN d THEN d ELSE Put(d, k, SetEntry({}))

\* the "assignment" dict of generate_groundings, never written
assignment == {}

\* mutant of must_differ: the id test inverted
must_differ_same_id(other_wildcard, wildcard) ==
    other_wildcard.name = wildcard.name /\ other_wildcard.id = wildcard.id

\* the condition under which other_wildcard is added to constraints[wildcard]
must_differ(other_wildcard, wildcard) ==
    other_wildcard.name = wildcard.name /\ other_wildcard.id # wildcard.id

\* the loop of generate_groundings that builds the constraint map
RECURSIVE build_constraints(_, _)
build_constraints(wildcards, constraints) ==
    IF wildcards = <<>> THEN constraints
    ELSE LET wildcard == Head(wildcards)
             reset == Put(constraints, wildcard, SetEntry({}))
             others == {o \in DOMAIN reset : must_differ(o, wildcard)}
         IN IF wildcard.id # 0
            THEN IF wildcard \in assignment
                 THEN build_constraints(Tail(wildcards), reset)
                 ELSE build_constraints(Tail(wildcards),
                                        Put(reset, wildcard, SetEntry(others)))
            ELSE build_constraints(Tail(wildcards), constraints)

(***************************************************************************)
(* __populate_with_constraints as a generator.  A frame is one activation: *)
(* its tree, its constraint map and the index of the next candidate of its *)
(* for loop.  The stack holds the activations suspended at a yield.        *)
(***************************************************************************)
Frame(tree, constraints) == [tree |-> tree, constraints |-> constraints, next |-> 1]
NoTree == Tree("", <<>>)
Out(kind, tree) == [kind |-> kind, tree |-> tree]

\* "candidate == constraints[constraint]" for a string candidate
equals_entry(candidate, entry) == ~entry.isSet /\ entry.val = candidate

\* mutant of valid: no candidate is ever rejected
valid_always(candidate, item_constraints, constraints) == TRUE

\* the inner loop over item_constraints: is the candidate still valid?
valid(candidate, item_constraints, constraints) ==
    \A constraint \in item_constraints.set :
        ~equals_entry(candidate, constraints[constraint])

\* the tree with the first child equal to the target replaced, and whether
\* there was one
RECURSIVE replace_first(_, _, _)
replace_first(tree, child_target, replacement) ==
    LET RECURSIVE scan(_, _)
        scan(kids, done) ==
            IF kids = <<>> THEN [kids |-> <<>>, done |-> done]
            ELSE LET c == Head(kids)
                     h == IF done THEN [node |-> c, done |-> TRUE]
                          ELSE IF c = child_target
                          THEN [node |-> Value(replacement), done |-> TRUE]
                          ELSE IF c.kind = "tree"
                          THEN replace_first(c, child_target, replacement)
                          ELSE [node |-> c, done |-> FALSE]
                     t == scan(Tail(kids), h.done)
                 IN [kids |-> <<h.node>> \o t.kids, done |-> t.done]
        r == scan(tree.kids, FALSE)
    IN [node |-> [tree EXCEPT !.kids = r.kids], done |-> r.done]

\* mutant of substitute: the replacement is left out, the copy is handed on as it is
substitute_nothing(tree, wildcard, candidate) == tree

\* mutant of substitute: only the first occurrence of the wildcard is replaced
substitute_once(tree, wildcard, candidate) ==
    replace_first(tree, wildcard, candidate).node

\* lines 218 and 221: the copy of the tree, the wildcard replaced in it
substitute(tree, wildcard, candidate) ==
    replace_child_in_tree(tree, wildcard, candidate)

\* mutant of copied: no copies are made, the changes of lines 219-221 are made
\* to the tree and the constraint map the caller itself holds
modified_in_place(caller, fresh_tree, fixed) ==
    [caller EXCEPT !.tree = fresh_tree, !.constraints = fixed]

\* lines 217-218: fixed and fresh_tree are deep copies, so what the suspended
\* caller holds is what it held before the branch
copied(caller, fresh_tree, fixed) == caller

\* mutant of by_name: the candidates are looked up under a fixed name
by_person(kb, wildcard) == kb["person"]

\* line 202: self.knowledge_base.by_name[wildcard.name]
by_name(kb, wildcard) == kb[wildcard.name]

\* mutant of next_wildcard: the last remaining wildcard is resolved first
last_wildcard(wildcards) == wildcards[Len(wildcards)]

\* line 200: wildcard = next(wildcards), the first remaining wildcard
next_wildcard(wildcards) == Head(wildcards)

\* The innermost activation runs until it yields, raises or returns.  The
\* result is the stack that is left (the activation and its callers suspended
\* at a yield, its callers alone once it has returned) and the outcome: a
\* yielded tree, an error, or "none" when it returned without yielding.
\* Where a result is needed more than once it is bound as the element of a
\* singleton set, so that it is computed once.
RECURSIVE populate_with_constraints(_, _)

\* the for loop of activation f from its candidate f.next on
try_candidate(kb, f, below, wildcard) ==
    LET constraints == Touch(f.constraints, wildcard)
        item_constraints == constraints[wildcard]
        candidates == by_name(kb, wildcard)
    IN IF f.next > Len(candidates)
       THEN [stack |-> below, out |-> Out("none", NoTree)]
       ELSE
        LET candidate == candidates[f.next]
            resumed == [f EXCEPT !.constraints = constraints, !.next = f.next + 1]
        IN IF ~item_constraints.isSet
           THEN [stack |-> <<>>, out |-> Out("AssertionError", NoTree)]
           ELSE IF ~valid(candidate, item_constraints, constraints)
           THEN populate_with_constraints(kb, Append(below, resumed))
           ELSE
            LET fixed == Put(constraints, wildcard, FixedEntry(candidate))
                fresh_tree == substitute(f.tree, wildcard, candidate)
            IN CHOOSE result \in
                 {IF branch.out.kind = "none"
                  THEN populate_with_constraints(kb, branch.stack)
                  ELSE branch :
                     branch \in {populate_with_constraints(kb,
                                     Append(below, copied(resumed, fresh_tree, fixed))
                                        \o <<Frame(fresh_tree, fixed)>>)}} : TRUE

populate_with_constraints(kb, frames) ==
    CHOOSE result \in
        UNION {{IF wildcards = <<>>
                THEN [stack |-> SubSeq(fr, 1, Len(fr) - 1),
                      out |-> Out("yield", fr[Len(fr)].tree)]
                ELSE try_candidate(kb, fr[Len(fr)], SubSeq(fr, 1, Len(fr) - 1),
                                   next_wildcard(wildcards)) :
                   wildcards \in {get_wildcards(fr[Len(fr)].tree)}} :
               fr \in {frames}} : TRUE

\* next() on the generator: the innermost suspended activation goes on; when
\* it returns without yielding its caller goes on, and so on, until something
\* is yielded, the assertion fails or no activation is left (StopIteration)
RECURSIVE resume(_, _)
resume(kb, frames) ==
    IF frames = <<>> THEN [stack |-> <<>>, out |-> Out("StopIteration", NoTree)]
    ELSE CHOOSE result \in {IF r.out.kind = "none" THEN resume(kb, r.stack) ELSE r :
                                r \in {populate_with_constraints(kb, frames)}} : TRUE

\* generate_groundings up to its "yield from": the first frame of the search
generate_groundings(tree) ==
    <<Frame(tree, build_constraints(get_wildcards(tree), EmptyDict))>>

\* mutant of first_item: the first item is dropped and the second returned
second_item(kb, frames) == resume(kb, resume(kb, frames).stack).out

\* next(iterator) as ground uses it: the first item, or StopIteration
first_item(kb, frames) == resume(kb, frames).out

\* Generator.ground
ground(kb, tree) == first_item(kb, generate_groundings(tree))

(***************************************************************************)
(* Rule text.  A line is a sequence of tokens.  " " is white space, "BOM"  *)
(* a non-printable character, "=" the separator, "#" starts a comment, "!" *)
(* is text no grammar accepts, "$A" and "$B" are non-terminals, "$p1" and  *)
(* "$p2" wildcards, "(go|take)" and "($p1|$p2)" shorthand for a choice.    *)
(***************************************************************************)
NonTerminals == {"$A", "$B"}
NonTerminal(t) == Leaf("nonterminal", t, 0)

\* the node a token of an expression parses to
TokenNode(t) ==
    CASE t = "$p1" -> WildCard("person", 1)
      [] t = "$p2" -> WildCard("person", 2)
      [] t = "(go|take)" -> Tree("choice", <<Word("go"), Word("take")>>)
      [] t = "($p1|$p2)" -> Tree("choice", <<WildCard("person", 1), WildCard("person", 2)>>)
      [] OTHER -> Word(t)

\* str.strip
RECURSIVE strip(_)
strip(text) ==
    IF text = <<>> THEN text
    ELSE IF Head(text) = " " THEN strip(Tail(text))
    ELSE IF text[Len(text)] = " " THEN strip(SubSeq(text, 1, Len(text) - 1))
    ELSE text

\* re.sub("[^printable]+", "", line): non-printable characters are dropped
RECURSIVE scrub(_)
scrub(text) ==
    IF text = <<>> THEN text
    ELSE IF Head(text) = "BOM" THEN scrub(Tail(text))
    ELSE <<Head(text)>> \o scrub(Tail(text))

\* str.split("="): the pieces between the separators
RECURSIVE split(_)
split(text) ==
    IF \A i \in 1..Len(text) : text[i] # "=" THEN <<text>>
    ELSE LET i == CHOOSE k \in 1..Len(text) :
                      text[k] = "=" /\ \A j \in 1..(k - 1) : text[j] # "="
         IN <<SubSeq(text, 1, i - 1)>> \o split(SubSeq(text, i + 1, Len(text)))

\* the external parsers: a parse either raises LarkError or returns a value;
\* their lexers skip white space
Parsed(value) == [ok |-> TRUE, value |-> value]
LarkError == [ok |-> FALSE, value |-> NoTree]
RECURSIVE Lex(_)
Lex(text) ==
    IF text = <<>> THEN text
    ELSE IF Head(text) = " " THEN Lex(Tail(text))
    ELSE <<Head(text)>> \o Lex(Tail(text))
IsComment(toks) == toks = <<>> \/ Head(toks) = "#"
Malformed(toks) == \E i \in 1..Len(toks) : toks[i] \in {"!", "=", "BOM", "#"}
Nodes(toks) == [i \in 1..Len(toks) |-> TokenNode(toks[i])]

\* self.sequence_parser.parse
sequence_parser_parse(text) ==
    LET toks == Lex(text)
    IN IF IsComment(toks) THEN Parsed(Tree("expression", <<>>))
       ELSE IF Malformed(toks) THEN LarkError
       ELSE Parsed(Tree("expression", Nodes(toks)))

\* self.lambda_parser.parse; the text "1" parses to a constant that is no Tree
lambda_parser_parse(text) ==
    LET toks == Lex(text)
    IN IF IsComment(toks) THEN Parsed(Tree("lambda", <<>>))
       ELSE IF Malformed(toks) THEN LarkError
       ELSE IF toks = <<"1">> THEN Parsed(Word("1"))
       ELSE Parsed(Tree("lambda", Nodes(toks)))

\* self.grammar_parser.parse: "<non-terminal> = <expression>"
grammar_parser_parse(text) ==
    LET toks == Lex(text)
        rhs == SubSeq(toks, 3, Len(toks))
    IN IF IsComment(toks) THEN Parsed(Tree("rule", <<>>))
       ELSE IF /\ Len(toks) >= 3
               /\ toks[1] \in NonTerminals
               /\ toks[2] = "="
               /\ ~Malformed(rhs)
            THEN Parsed(Tree("rule", <<NonTerminal(toks[1]), Tree("expression", Nodes(rhs))>>))
            ELSE LarkError

\* grammar.expand_shorthand: one tree per combination of the choices, the
\* first choice point varying slowest
RECURSIVE expand_children(_)
expand_children(kids) ==
    IF kids = <<>> THEN <<<<>>>>
    ELSE LET heads == IF Head(kids).kind = "tree" THEN Head(kids).kids ELSE <<Head(kids)>>
             rest == expand_children(Tail(kids))
         IN [k \in 1..(Len(heads) * Len(rest)) |->
                <<heads[((k - 1) \div Len(rest)) + 1]>> \o rest[((k - 1) % Len(rest)) + 1]]

expand_shorthand(tree) ==
    IF tree.kind # "tree" THEN <<tree>>
    ELSE LET alts == expand_children(tree.kids)
         IN [k \in 1..Len(alts) |-> Tree(tree.name, alts[k])]

IsTree(x) == x.kind = "tree"

\* util.get_wildcards_forest: the set of wildcards of a list of trees
get_wildcards_forest(trees) ==
    UNION {Range(get_wildcards(trees[i])) : i \in 1..Len(trees)}

(***************************************************************************)
(* Generator.parse_production_rule and Generator.load_rules                *)
(***************************************************************************)
Raise(kind) == [kind |-> kind, count |-> 0]
Return(count) == [kind |-> "return", count |-> count]
None == Leaf("None", "", 0)

\* returns (lhs, rhs_list_expanded), or raises the parser's error
parse_production_rule(line, expand) ==
    LET parsed == grammar_parser_parse(line)
    IN IF ~parsed.ok THEN [out |-> Raise("LarkError"), lhs |-> None, rhs |-> <<>>]
       ELSE IF Len(parsed.value.kids) = 0
            THEN [out |-> Return(0), lhs |-> None, rhs |-> <<>>]
            ELSE [out |-> Return(0),
                  lhs |-> parsed.value.kids[1],
                  rhs |-> IF expand THEN expand_shorthand(parsed.value.kids[2])
                          ELSE <<parsed.value.kids[2]>>]

\* mutant of add_productions: a later line for the same lhs replaces the list
add_productions_overwrite(table, lhs, rhs_productions) ==
    Put(table, lhs, rhs_productions)

\* lines 108-113: a new entry, or the list under lhs is extended
add_productions(table, lhs, rhs_productions) ==
    IF lhs \notin DOMAIN table THEN Put(table, lhs, rhs_productions)
    ELSE Put(table, lhs, table[lhs] \o rhs_productions)

\* mutant of count_line: a line counts once per alternative it contributes
count_alternatives(i, rhs_productions) == i + Len(rhs_productions)

\* lines 110 and 113: "i += 1", whatever the line contributed
count_line(i, rhs_productions) == i + 1

\* mutant of raises: the error of a bad line is swallowed and the loop goes on
raises_never(out) == FALSE

\* an exception raised while a line is handled is not caught in the loops of
\* load_rules and load_semantics_rules: it leaves the call at that line
raises(out) == out.kind # "return"

\* the body of load_rules over the lines of all files, in order
RECURSIVE load_rules_lines(_, _, _, _, _)
load_rules_lines(lines, expand, table, i, log) ==
    IF lines = <<>> THEN [rules |-> table, out |-> Return(i), log |-> log]
    ELSE LET line == scrub(strip(Head(lines)))
             p == parse_production_rule(line, expand)
         IN IF raises(p.out)
            THEN [rules |-> table, out |-> p.out,
                  log |-> Append(log, [line |-> Head(lines), kind |-> p.out.kind])]
            ELSE IF p.lhs = None
            THEN load_rules_lines(Tail(lines), expand, table, i,
                                  Append(log, [line |-> Head(lines), kind |-> "skipped"]))
            ELSE load_rules_lines(Tail(lines), expand,
                                  add_productions(table, p.lhs, p.rhs),
                                  count_line(i, p.rhs),
                                  Append(log, [line |-> Head(lines), kind |-> "appended"]))

\* "if not isinstance(files, list): files = [files]", then all lines in order
RECURSIVE Flatten(_)
Flatten(files) == IF files = <<>> THEN <<>> ELSE Head(files) \o Flatten(Tail(files))
AsList(arg) == IF arg.isList THEN arg.files ELSE <<arg.file>>

load_rules(grammar_files, expand, table) ==
    load_rules_lines(Flatten(AsList(grammar_files)), expand, table, 0, <<>>)

(***************************************************************************)
(* Generator.__parse_rule and Generator.load_semantics_rules               *)
(***************************************************************************)
Max(a, b) == IF a >= b THEN a ELSE b

\* mutant of zip_longest: the shorter list is padded with its own first element
zip_longest_own_first(xs, ys, fillvalue) ==
    [k \in 1..Max(Len(xs), Len(ys)) |->
        <<IF k <= Len(xs) THEN xs[k] ELSE xs[1], IF k <= Len(ys) THEN ys[k] ELSE ys[1]>>]

\* itertools.zip_longest(xs, ys, fillvalue=fillvalue)
zip_longest(xs, ys, fillvalue) ==
    [k \in 1..Max(Len(xs), Len(ys)) |->
        <<IF k <= Len(xs) THEN xs[k] ELSE fillvalue,
          IF k <= Len(ys) THEN ys[k] ELSE fillvalue>>]

\* mutant of unbound: the difference taken the wrong way round
unbound_reversed(prod, sem) ==
    LET prod_wildcards == get_wildcards_forest(<<prod>>)
        sem_wildcards == IF IsTree(sem) THEN get_wildcards_forest(<<sem>>) ELSE {}
    IN prod_wildcards \ sem_wildcards # {}

\* lines 147-150: does the semantics use a wildcard the production lacks?
unbound(prod, sem) ==
    LET prod_wildcards == get_wildcards_forest(<<prod>>)
        sem_wildcards == IF IsTree(sem) THEN get_wildcards_forest(<<sem>>) ELSE {}
    IN sem_wildcards \ prod_wildcards # {}

\* mutant of setitem: an existing key keeps its value
setitem_keep_first(rule_dict, prod, sem) ==
    IF prod \in DOMAIN rule_dict THEN rule_dict ELSE Put(rule_dict, prod, sem)

\* line 154: rule_dict[prod] = sem
setitem(rule_dict, prod, sem) == Put(rule_dict, prod, sem)

\* mutant of register: the pairs of a line are validated before any is written
RECURSIVE register_atomic(_, _, _, _)
register_atomic(pairs, rule_dict, i, written) ==
    IF \E k \in 1..Len(pairs) : unbound(pairs[k][1], pairs[k][2])
    THEN [rule_dict |-> rule_dict, out |-> Raise("RuntimeError"), written |-> written]
    ELSE IF pairs = <<>>
    THEN [rule_dict |-> rule_dict, out |-> Return(i), written |-> written]
    ELSE register_atomic(Tail(pairs), setitem(rule_dict, Head(pairs)[1], Head(pairs)[2]),
                         i + 1, Append(written, Head(pairs)))

\* the for loop of __parse_rule over the zipped pairs
RECURSIVE register(_, _, _, _)
register(pairs, rule_dict, i, written) ==
    IF pairs = <<>> THEN [rule_dict |-> rule_dict, out |-> Return(i), written |-> written]
    ELSE LET prod == Head(pairs)[1]
             sem == Head(pairs)[2]
         IN IF unbound(prod, sem)
            THEN [rule_dict |-> rule_dict, out |-> Raise("RuntimeError"), written |-> written]
            ELSE register(Tail(pairs), setitem(rule_dict, prod, sem), i + 1,
                          Append(written, <<prod, sem>>))

\* what __parse_rule did with a line: the texts it split the line into, the
\* pairs it wrote and how it ended
Done(rule_dict, out, prod, sem, written) ==
    [rule_dict |-> rule_dict, out |-> out, prod |-> prod, sem |-> sem, written |-> written]

parse_rule(line, rule_dict) ==
    IF \A k \in 1..Len(line) : line[k] # "="
    THEN Done(rule_dict, Return(0), <<>>, <<>>, <<>>)
    ELSE
     LET parts == split(line)
     IN IF Len(parts) # 2
        THEN Done(rule_dict, Raise("ValueError"), <<>>, <<>>, <<>>)
        ELSE
         LET prod == sequence_parser_parse(strip(parts[1]))
             sem == lambda_parser_parse(strip(parts[2]))
         IN IF ~prod.ok
            THEN Done(rule_dict, Raise("LarkError"), parts[1], parts[2], <<>>)
            ELSE IF Len(prod.value.kids) = 0
            THEN Done(rule_dict, Return(0), parts[1], parts[2], <<>>)
            ELSE IF ~sem.ok
            THEN Done(rule_dict, Raise("LarkError"), parts[1], parts[2], <<>>)
            ELSE
             LET expanded_prod_heads == expand_shorthand(prod.value)
                 expanded_sem_heads == expand_shorthand(sem.value)
                 r == register(zip_longest(expanded_prod_heads, expanded_sem_heads,
                                           expanded_sem_heads[1]),
                               rule_dict, 0, <<>>)
             IN Done(r.rule_dict, r.out, parts[1], parts[2], r.written)

\* the body of load_semantics_rules over the lines of all files, in order
RECURSIVE load_semantics_lines(_, _, _, _)
load_semantics_lines(lines, table, i, log) ==
    IF lines = <<>> THEN [semantics |-> table, out |-> Return(i), log |-> log]
    ELSE LET cleaned == strip(Head(lines))
             r == parse_rule(cleaned, table)
             entry == [line |-> cleaned, kind |-> r.out.kind, count |-> r.out.count,
                       prod |-> r.prod, sem |-> r.sem, written |-> r.written]
         IN IF raises(r.out)
            THEN [semantics |-> r.rule_dict, out |-> r.out, log |-> Append(log, entry)]
            ELSE load_semantics_lines(Tail(lines), r.rule_dict, i + r.out.count,
                                      Append(log, entry))

load_semantics_rules(semantics_files, table) ==
    load_semantics_lines(Flatten(AsList(semantics_files)), table, 0, <<>>)

(***************************************************************************)
(* Actions of the grounding engine.                                        *)
(***************************************************************************)
NoGround == [tree |-> NoTree, out |-> Out("none", NoTree)]

\* __init__ does not set self.knowledge_base: the owner assigns it before grounding
NoKnowledgeBase == [n \in {} |-> <<>>]

SetKnowledgeBase ==
    /\ knowledge_base = NoKnowledgeBase
    /\ knowledge_base' \in KnowledgeBases
    /\ UNCHANGED <<genTree, genState, stack, yielded, grounded, loaderVars>>

\* a caller creates the generator: generate_groundings(tree).  A fresh
\* generator shares nothing with an earlier one (its tree, constraint map and
\* frames are its own), so one generator per behaviour reaches every state.
GenerateGroundings ==
    /\ knowledge_base # NoKnowledgeBase
    /\ genState = "none"
    /\ grounded = NoGround
    /\ \E tree \in Trees :
        /\ genTree' = tree
        /\ genState' = "live"
        /\ stack' = generate_groundings(tree)
        /\ yielded' = <<>>
        /\ grounded' = NoGround
        /\ UNCHANGED <<knowledge_base, loaderVars>>

\* the consumer pulls the next grounding from the live generator
Pull ==
    /\ genState = "live"
    /\ \E r \in {resume(knowledge_base, stack)} :
          /\ stack' = r.stack
          /\ yielded' = IF r.out.kind = "yield" THEN Append(yielded, r.out.tree) ELSE yielded
          /\ genState' = CASE r.out.kind = "yield" -> "live"
                           [] r.out.kind = "StopIteration" -> "exhausted"
                           [] OTHER -> "raised"
    /\ UNCHANGED <<genTree, grounded, knowledge_base, loaderVars>>

\* a caller asks for one grounding: ground(tree), on any tree before a
\* generator exists and on the generator's tree once it is exhausted
Ground ==
    /\ knowledge_base # NoKnowledgeBase
    /\ genState \in {"none", "exhausted"}
    /\ grounded = NoGround
    /\ \E tree \in (IF genState = "none" THEN Trees ELSE {genTree}) :
          grounded' = [tree |-> tree, out |-> ground(knowledge_base, tree)]
    /\ UNCHANGED <<genTree, genState, stack, yielded, knowledge_base, loaderVars>>

(***************************************************************************)
(* What a grounding is, stated without the search: an assignment of a      *)
(* candidate to every wildcard position of the input tree.  Positions of   *)
(* one name whose ids are both non-empty hold the same value exactly when  *)
(* the ids are equal; a position with an empty id is free.                 *)
(***************************************************************************)
AllCandidates == UNION {Candidates[n] : n \in Names}
WildPositions(tree) == {i \in 1..Len(Fringe(tree)) : Fringe(tree)[i].kind = "wildcard"}
CoIndexed(a, b) == a.name = b.name /\ a.id # 0 /\ b.id # 0

ValidAssignments(tree, kb) ==
    LET fr == Fringe(tree)
        P == WildPositions(tree)
    IN {a \in [P -> AllCandidates] :
          /\ \A i \in P : a[i] \in Range(kb[fr[i].name])
          /\ \A i, j \in P : CoIndexed(fr[i], fr[j]) => ((a[i] = a[j]) <=> (fr[i].id = fr[j].id))}

\* the fringe of the tree grounded by assignment a
GroundedFringe(tree, a) ==
    LET fr == Fringe(tree)
    IN [i \in 1..Len(fr) |-> IF i \in DOMAIN a THEN Value(a[i]) ELSE fr[i]]

YieldedFringes == {Fringe(yielded[k]) : k \in 1..Len(yielded)}
DuplicateFree(s) == \A i, j \in 1..Len(s) : s[i] = s[j] => i = j

\* C1 (Distinctness): in every grounding yielded so far, two positions of the
\* input tree that hold wildcards of the same name with different non-empty ids
\* hold different values.
C1_Distinctness ==
    LET fr == Fringe(genTree)
        P == WildPositions(genTree)
        mustDiffer == {ij \in P \X P : CoIndexed(fr[ij[1]], fr[ij[2]]) /\ fr[ij[1]].id # fr[ij[2]].id}
    IN \A k \in 1..Len(yielded) :
          LET g == Fringe(yielded[k])
          IN \A ij \in mustDiffer : g[ij[1]] # g[ij[2]]

\* a grounding was yielded for a tree where person 1 occurs twice around person 2
C1_Witness ==
    /\ get_wildcards(genTree)
          = <<WildCard("person", 1), WildCard("person", 2), WildCard("person", 1)>>
    /\ Len(yielded) >= 1

\* C2 (Completeness): once the generator is exhausted over duplicate-free
\* candidate lists, the groundings yielded are exactly the valid assignments,
\* each yielded once.
C2_Completeness ==
    (genState = "exhausted" /\ \A n \in Names : DuplicateFree(knowledge_base[n]))
        => /\ YieldedFringes
                = {GroundedFringe(genTree, a) : a \in ValidAssignments(genTree, knowledge_base)}
           /\ DuplicateFree(yielded)

\* C3 (Freedom): a position holding a wildcard with an empty id takes every
\* candidate of its name whatever the other positions hold: changing that
\* position of a yielded grounding to any candidate gives a yielded grounding;
\* and the search raises nothing.
C3_Freedom ==
    /\ genState # "raised"
    /\ genState = "exhausted" =>
         \A g \in YieldedFringes :
            \A i \in WildPositions(genTree) :
                Fringe(genTree)[i].id = 0 =>
                    \A c \in Range(knowledge_base[Fringe(genTree)[i].name]) :
                        [g EXCEPT ![i] = Value(c)] \in YieldedFringes

\* an input is unsatisfiable when no assignment is valid
Unsatisfiable(tree, kb) == ValidAssignments(tree, kb) = {}

\* C4 (Unsatisfiable grounding is an empty result): on an unsatisfiable input
\* nothing has been yielded, nothing is raised, and the next pull of a live
\* generator finds it exhausted.
C4_UnsatisfiableIsEmpty ==
    (genState # "none" /\ Unsatisfiable(genTree, knowledge_base))
        => /\ yielded = <<>>
           /\ genState # "raised"
           /\ genState = "live" => resume(knowledge_base, stack).out.kind = "StopIteration"

\* two co-indexed persons and a single candidate: exhausted with nothing yielded
C4_Witness ==
    /\ genState = "exhausted"
    /\ yielded = <<>>
    /\ get_wildcards(genTree) = <<WildCard("person", 1), WildCard("person", 2)>>
    /\ Len(knowledge_base["person"]) = 1

\* C5: ground(tree) returns the first grounding generate_groundings(tree)
\* yields, and raises (StopIteration out of next) when it yields none.
C5_GroundIsFirst ==
    (genState = "exhausted" /\ grounded # NoGround /\ grounded.tree = genTree)
        => IF yielded = <<>>
           THEN grounded.out.kind = "StopIteration"
           ELSE grounded.out = Out("yield", yielded[1])

\* ground returned a tree for an input that has several groundings
C5_Witness ==
    /\ genState = "exhausted"
    /\ grounded.tree = genTree
    /\ grounded.out.kind = "yield"
    /\ Len(yielded) >= 2

\* ground raised for an input that has no grounding
C5_WitnessRaises ==
    /\ genState = "exhausted"
    /\ grounded.tree = genTree
    /\ grounded.out.kind = "StopIteration"
    /\ get_wildcards(genTree) # <<>>

(***************************************************************************)
(* Inputs and actions of the loaders.                                      *)
(***************************************************************************)
RuleLines ==
    {<<"$A", "=", "go">>,
     <<"$A", "=", "(go|take)">>,
     <<"$A", "=", "take", "$p1">>,
     <<" ", "$B", " ", "=", "(go|take)", "($p1|$p2)", " ">>,
     <<"BOM", "$B", "=", "go">>,
     <<"#", "go">>,
     <<" ">>,
     <<"$A", "=", "!">>}

SemanticsLines ==
    {<<"#", "go">>,
     <<"go", "=", "$p1">>,
     <<"$p1", "=", "$p1">>,
     <<" ", "$p1", " ", "=", " ", "go", " ">>,
     <<"$p1", "=", "1">>,
     <<"(go|take)", "=", "go">>,
     <<"go", "=", "(go|take)">>,
     <<"($p1|$p2)", "=", "($p1|$p2)">>,
     <<"($p1|$p2)", "=", "$p1">>,
     <<"$p1", "=", "($p1|$p2)">>,
     <<"go", "=", "go", "=", "take">>,
     <<"!", "=", "go">>,
     <<"go", "=", "!">>,
     <<"=", "!">>}

\* the argument of a load call: one file, or a list of two files
FileArgs(Lines, n) ==
    {[isList |-> FALSE, file |-> f, files |-> <<>>] : f \in SeqUpTo(Lines, n)}
    \cup {[isList |-> TRUE, file |-> <<>>,
           files |-> <<SubSeq(fc[1], 1, fc[2]), SubSeq(fc[1], fc[2] + 1, Len(fc[1]))>>] :
            fc \in {x \in SeqUpTo(Lines, n) \X (0..n) : x[2] <= Len(x[1])}}

NoCall == [op |-> "none", out |-> Return(0), log |-> <<>>, regsBefore |-> 0,
           lines |-> <<>>, expand |-> TRUE, before |-> EmptyDict]

LoadRules ==
    \E grammar_files \in FileArgs(RuleLines, MaxLines - linesRead), expand \in BOOLEAN :
        LET lines == Flatten(AsList(grammar_files))
            r == load_rules(grammar_files, expand, rules)
        IN /\ rules' = r.rules
           /\ lastCall' = [op |-> "load_rules", out |-> r.out, log |-> r.log,
                           regsBefore |-> Len(registered),
                           lines |-> lines, expand |-> expand, before |-> rules]
           /\ ruleLines' = ruleLines \o
                  [k \in 1..Len(r.log) |->
                      [line |-> r.log[k].line, expand |-> expand, kind |-> r.log[k].kind]]
           /\ linesRead' = linesRead + Len(lines)
           /\ UNCHANGED <<semantics, registered, groundVars>>

RECURSIVE Written(_)
Written(log) == IF log = <<>> THEN <<>> ELSE Head(log).written \o Written(Tail(log))

LoadSemanticsRules ==
    \E semantics_files \in FileArgs(SemanticsLines, MaxLines - linesRead) :
        LET lines == Flatten(AsList(semantics_files))
            r == load_semantics_rules(semantics_files, semantics)
        IN /\ semantics' = r.semantics
           /\ lastCall' = [op |-> "load_semantics_rules", out |-> r.out, log |-> r.log,
                           regsBefore |-> Len(registered),
                           lines |-> lines, expand |-> TRUE, before |-> semantics]
           /\ registered' = registered \o Written(r.log)
           /\ linesRead' = linesRead + Len(lines)
           /\ UNCHANGED <<rules, ruleLines, groundVars>>

(***************************************************************************)
(* The loaders' claims.  What a line should have done is recomputed here   *)
(* from the line itself.                                                   *)
(***************************************************************************)
HasSeparator(line) == \E k \in 1..Len(line) : line[k] = "="
FirstSeparator(line) == CHOOSE k \in 1..Len(line) :
                            line[k] = "=" /\ \A j \in 1..(k - 1) : line[j] # "="
BeforeFirst(line) == SubSeq(line, 1, FirstSeparator(line) - 1)
AfterFirst(line) == SubSeq(line, FirstSeparator(line) + 1, Len(line))

\* the wildcards of a production or of a semantics, tree or not
WildcardsOf(x) ==
    IF x.kind = "wildcard" THEN {x}
    ELSE {l \in Range(Fringe(x)) : l.kind = "wildcard"}
Aligned(prod, sem) == WildcardsOf(sem) \subseteq WildcardsOf(prod)

SemanticsLog == IF lastCall.op = "load_semantics_rules" THEN lastCall.log ELSE <<>>
ProdTree(e) == sequence_parser_parse(e.prod)
SemTree(e) == lambda_parser_parse(e.sem)
\* the line got as far as the pairing loop
Paired(e) ==
    /\ HasSeparator(e.line)
    /\ e.kind \in {"return", "RuntimeError"}
    /\ ProdTree(e).value.kids # <<>>
\* the pairing rule: position k of both lists, a missing position being
\* filled with the first expanded semantics
Pairing(ep, es) ==
    [k \in 1..Max(Len(ep), Len(es)) |->
        <<IF k <= Len(ep) THEN ep[k] ELSE es[1], IF k <= Len(es) THEN es[k] ELSE es[1]>>]
PairsOf(e) == Pairing(expand_shorthand(ProdTree(e).value), expand_shorthand(SemTree(e).value))
IsPrefix(s, t) == Len(s) <= Len(t) /\ s = SubSeq(t, 1, Len(s))

\* C6 (Alignment invariant): every entry of the semantics table has the
\* wildcards of its semantics among those of its production; a line ends in
\* the unbound-wildcard error exactly at its first pair that violates this,
\* and that pair is not written.
C6_Alignment ==
    /\ \A prod \in DOMAIN semantics : Aligned(prod, semantics[prod])
    /\ \A k \in 1..Len(SemanticsLog) :
          LET e == SemanticsLog[k]
              pairs == PairsOf(e)
              n == Len(e.written)
          IN Paired(e) =>
                /\ \A i \in 1..n : Aligned(e.written[i][1], e.written[i][2])
                /\ e.kind = "RuntimeError" =>
                      /\ n < Len(pairs)
                      /\ ~Aligned(pairs[n + 1][1], pairs[n + 1][2])
                /\ e.kind = "return" => \A i \in 1..Len(pairs) : Aligned(pairs[i][1], pairs[i][2])

\* a load was aborted by the unbound-wildcard error after an earlier pair of
\* the same line had been written
C6_Witness ==
    \E k \in 1..Len(SemanticsLog) :
        /\ SemanticsLog[k].kind = "RuntimeError"
        /\ SemanticsLog[k].written # <<>>
        /\ semantics # EmptyDict

\* C7 (Pairing rule): a line that reaches the pairing loop writes the pairs of
\* the pairing rule in order (all of them when it returns, a proper prefix
\* when it raises), and returns max(|expanded_prod|, |expanded_sem|).
C7_Pairing ==
    \A k \in 1..Len(SemanticsLog) :
        LET e == SemanticsLog[k]
            pairs == PairsOf(e)
        IN Paired(e) =>
              /\ IsPrefix(e.written, pairs)
              /\ e.kind = "return" =>
                    /\ e.written = pairs
                    /\ e.count = Max(Len(expand_shorthand(ProdTree(e).value)),
                                     Len(expand_shorthand(SemTree(e).value)))

\* a line whose production list is the shorter one was registered: its second
\* pair has the first expanded semantics in the production's place
C7_Witness ==
    \E k \in 1..Len(SemanticsLog) :
        LET e == SemanticsLog[k]
        IN /\ Paired(e)
           /\ e.kind = "return"
           /\ Len(expand_shorthand(ProdTree(e).value)) = 1
           /\ e.count = 2
           /\ e.written[2][1] = expand_shorthand(SemTree(e).value)[1]

\* C8 (Line splitting): a line without "=" is skipped and counts 0; a line
\* with "=" is split at its first "=", the production text being what is
\* before it and the semantics text all that is after it.
C8_SplitAtFirst ==
    \A k \in 1..Len(SemanticsLog) :
        LET e == SemanticsLog[k]
        IN IF HasSeparator(e.line)
           THEN e.prod = BeforeFirst(e.line) /\ e.sem = AfterFirst(e.line)
           ELSE e.kind = "return" /\ e.count = 0 /\ e.written = <<>>

\* C8 for the lines that hold at most one "=" (what the code does)
C8_SplitAtOnlySeparator ==
    \A k \in 1..Len(SemanticsLog) :
        LET e == SemanticsLog[k]
        IN IF HasSeparator(e.line)
           THEN IF Len(split(e.line)) = 2
                THEN e.prod = BeforeFirst(e.line) /\ e.sem = AfterFirst(e.line)
                ELSE e.kind = "ValueError"
           ELSE e.kind = "return" /\ e.count = 0 /\ e.written = <<>>

\* the lines of the history that load_rules took as rules: read without a
\* parser error and no comment
RuleTree(l) == grammar_parser_parse(scrub(strip(l.line))).value
IsRule(l) == l.kind # "LarkError" /\ RuleTree(l).kids # <<>>
RECURSIVE ConcatRules(_, _, _)
ConcatRules(log, lhs, alwaysExpanded) ==
    IF log = <<>> THEN <<>>
    ELSE LET l == Head(log)
         IN (IF IsRule(l) /\ RuleTree(l).kids[1] = lhs
             THEN IF alwaysExpanded \/ l.expand
                  THEN expand_shorthand(RuleTree(l).kids[2])
                  ELSE <<RuleTree(l).kids[2]>>
             ELSE <<>>)
            \o ConcatRules(Tail(log), lhs, alwaysExpanded)
RuleTable(alwaysExpanded) ==
    /\ DOMAIN rules = {RuleTree(ruleLines[k]).kids[1] :
                          k \in {j \in 1..Len(ruleLines) : IsRule(ruleLines[j])}}
    /\ \A lhs \in DOMAIN rules : rules[lhs] = ConcatRules(ruleLines, lhs, alwaysExpanded)

BadRuleLine(line) == ~grammar_parser_parse(scrub(strip(line))).ok
BadSemanticsLine(line) ==
    LET l == strip(line)
    IN /\ HasSeparator(l)
       /\ LET p == sequence_parser_parse(strip(BeforeFirst(l)))
              s == lambda_parser_parse(strip(AfterFirst(l)))
          IN \/ ~p.ok
             \/ /\ p.value.kids # <<>>
                /\ \/ ~s.ok
                   \/ LET pairs == Pairing(expand_shorthand(p.value),
                                           expand_shorthand(s.value))
                      IN \E i \in 1..Len(pairs) : ~Aligned(pairs[i][1], pairs[i][2])
BadLine(op, line) ==
    IF op = "load_rules" THEN BadRuleLine(line) ELSE BadSemanticsLine(line)
FirstBad(op, lines) ==
    CHOOSE k \in 1..Len(lines) :
        BadLine(op, lines[k]) /\ \A j \in 1..(k - 1) : ~BadLine(op, lines[j])

\* C11 (Fail-fast loading): when a line handed to load_rules or
\* load_semantics_rules is bad, the call raises and returns no count, the first
\* bad line is the last line it handled, the lines before it were handled
\* without error, and the table is what the lines up to the bad one alone
\* leave: no later line is parsed or registered.
C11_FailFast ==
    (lastCall.op # "none" /\ \E k \in 1..Len(lastCall.lines) : BadLine(lastCall.op, lastCall.lines[k]))
        => LET lines == lastCall.lines
               k == FirstBad(lastCall.op, lines)
               upTo == SubSeq(lines, 1, k)
           IN /\ lastCall.out.kind # "return"
              /\ Len(lastCall.log) = k
              /\ \A j \in 1..(k - 1) : lastCall.log[j].kind \in {"return", "appended", "skipped"}
              /\ lastCall.log[k].kind = lastCall.out.kind
              /\ IF lastCall.op = "load_rules"
                 THEN rules = load_rules_lines(upTo, lastCall.expand, lastCall.before, 0, <<>>).rules
                 ELSE semantics = load_semantics_lines(upTo, lastCall.before, 0, <<>>).semantics

\* a call was given a bad line followed by a line that registers when loaded
\* alone, and the table it left is the one it found
C11_Witness ==
    /\ lastCall.op # "none"
    /\ Len(lastCall.lines) = 2
    /\ BadLine(lastCall.op, lastCall.lines[1])
    /\ ~BadLine(lastCall.op, lastCall.lines[2])
    /\ IF lastCall.op = "load_rules"
       THEN load_rules_lines(<<lastCall.lines[2]>>, TRUE, EmptyDict, 0, <<>>).rules # EmptyDict
       ELSE load_semantics_lines(<<lastCall.lines[2]>>, EmptyDict, 0, <<>>).semantics # EmptyDict
    /\ lastCall.out.kind # "return"
    /\ rules = EmptyDict
    /\ semantics = EmptyDict

\* the lines of a call that hold a rule: the grammar parser returns a
\* structure that is not empty (comments and blank lines give an empty one)
HoldsRule(line) ==
    LET parsed == grammar_parser_parse(scrub(strip(line)))
    IN parsed.ok /\ parsed.value.kids # <<>>
RuleLinesOf(lines) == {k \in 1..Len(lines) : HoldsRule(lines[k])}

AlignedPrefix(pairs) ==
    SubSeq(pairs, 1,
           Cardinality({n \in 1..Len(pairs) :
                           \A i \in 1..n : Aligned(pairs[i][1], pairs[i][2])}))
RECURSIVE KeptPairs(_)
KeptPairs(log) ==
    IF log = <<>> THEN <<>>
    ELSE (IF Paired(Head(log)) THEN AlignedPrefix(PairsOf(Head(log))) ELSE <<>>)
         \o KeptPairs(Tail(log))
\* the lines of the last load_rules call, as entries of the rule history
CallRuleLog ==
    [k \in 1..Len(lastCall.log) |->
        [line |-> lastCall.log[k].line, expand |-> lastCall.expand,
         kind |-> lastCall.log[k].kind]]

\* C19 (No rollback on abort): after a call that raised, the semantics table
\* holds every entry it held before and every pair the call registered before
\* the failing pair (from earlier lines and from earlier positions of the
\* failing line), a key holding the semantics last written under it; and the
\* rule table holds, under each left-hand side, what it held before followed
\* by what the lines before the failing line appended.
C19_NoRollback ==
    (lastCall.op # "none" /\ lastCall.out.kind # "return")
        => IF lastCall.op = "load_semantics_rules"
           THEN LET kept == KeptPairs(lastCall.log)
                    before == lastCall.before
                IN /\ \A prod \in DOMAIN before :
                         /\ prod \in DOMAIN semantics
                         /\ (\A i \in 1..Len(kept) : kept[i][1] # prod)
                                => semantics[prod] = before[prod]
                   /\ \A i \in 1..Len(kept) :
                         /\ kept[i][1] \in DOMAIN semantics
                         /\ (\A j \in (i + 1)..Len(kept) : kept[j][1] # kept[i][1])
                                => semantics[kept[i][1]] = kept[i][2]
           ELSE \A t \in NonTerminals :
                    LET lhs == NonTerminal(t)
                        old == IF lhs \in DOMAIN lastCall.before
                               THEN lastCall.before[lhs] ELSE <<>>
                        added == ConcatRules(CallRuleLog, lhs, FALSE)
                    IN IF old \o added = <<>> THEN lhs \notin DOMAIN rules
                       ELSE lhs \in DOMAIN rules /\ rules[lhs] = old \o added

\* a call registered the two pairs of a line, then raised on the second pair
\* of its next line: the table holds those two and the failing line's first
C19_Witness ==
    /\ lastCall.op = "load_semantics_rules"
    /\ lastCall.out.kind = "RuntimeError"
    /\ Len(lastCall.log) = 2
    /\ Len(lastCall.log[1].written) = 2
    /\ Len(lastCall.log[2].written) = 1
    /\ lastCall.before = EmptyDict
    /\ Cardinality(DOMAIN semantics) = 3

\* a load_rules call appended a line, then raised on its next line
C19_WitnessRules ==
    /\ lastCall.op = "load_rules"
    /\ lastCall.out.kind = "LarkError"
    /\ Len(lastCall.log) = 2
    /\ rules # lastCall.before

(***************************************************************************)
(* Order of the enumeration.                                               *)
(***************************************************************************)
\* the index of a value in a duplicate-free candidate list
IndexIn(list, v) == CHOOSE i \in 1..Len(list) : list[i] = v
\* the candidate indices of a grounding, by wildcard position of the input
CandidateIndices(g) ==
    LET fr == Fringe(genTree)
        gr == Fringe(g)
    IN [i \in WildPositions(genTree) |-> IndexIn(knowledge_base[fr[i].name], gr[i].name)]
\* lexicographic order of (wildcard traversal position, candidate index)
LexBefore(a, b) ==
    \E i \in DOMAIN a : a[i] < b[i] /\ \A j \in DOMAIN a : j < i => a[j] = b[j]

\* a fresh run of the generator to its end: everything it yields, in order
RECURSIVE run(_, _)
run(kb, frames) ==
    LET r == resume(kb, frames)
    IN IF r.out.kind = "yield" THEN <<r.out.tree>> \o run(kb, r.stack) ELSE <<>>

\* C13 (Enumeration order and determinism): over duplicate-free candidate
\* lists each grounding yielded comes, in the lexicographic order of the
\* candidate indices taken by wildcard position, strictly before the next one
\* yielded; and what a generator has yielded when it is exhausted is what a
\* second run on the same tree and knowledge base yields.
C13_Order ==
    /\ (genState # "none" /\ \A n \in Names : DuplicateFree(knowledge_base[n]))
          => \A k \in 1..(Len(yielded) - 1) :
                LexBefore(CandidateIndices(yielded[k]), CandidateIndices(yielded[k + 1]))
    /\ genState = "exhausted"
          => yielded = run(knowledge_base, generate_groundings(genTree))

\* the generator is exhausted after four groundings of two wildcards that do
\* not constrain each other
C13_Witness ==
    /\ genState = "exhausted"
    /\ Len(yielded) = 4
    /\ Len(get_wildcards(genTree)) = 2

\* C14 (Branch isolation): while the generator is live the outermost
\* activation holds the tree the search was given, unchanged; and every
\* suspended caller still holds its wildcard in its tree and a set under it in
\* its constraint map, the branch it is waiting for holding the caller's tree
\* with that wildcard replaced by the branch's own candidate and the caller's
\* constraint entries with only that wildcard's entry changed, to that
\* candidate: nothing of an earlier sibling is left in either.
C14_BranchIsolation ==
    genState = "live" =>
        /\ stack # <<>> => stack[1].tree = genTree
        /\ \A k \in 1..(Len(stack) - 1) :
              LET caller == stack[k]
                  branch == stack[k + 1]
                  ws == get_wildcards(caller.tree)
                  w == Head(ws)
                  candidate == knowledge_base[w.name][caller.next - 1]
              IN /\ ws # <<>>
                 /\ w \in DOMAIN caller.constraints
                 /\ caller.constraints[w].isSet
                 /\ branch.tree = replace_child_in_tree(caller.tree, w, candidate)
                 /\ branch.constraints[w] = FixedEntry(candidate)
                 /\ \A x \in DOMAIN caller.constraints \ {w} :
                       x \in DOMAIN branch.constraints
                          /\ branch.constraints[x] = caller.constraints[x]
                 /\ \A x \in DOMAIN branch.constraints \ DOMAIN caller.constraints :
                       branch.constraints[x] = SetEntry({})

\* the first branch of the outermost activation has returned and its second
\* branch is open, below a nested branch
C14_Witness ==
    /\ genState = "live"
    /\ Len(stack) = 3
    /\ stack[1].next = 3
    /\ Len(yielded) >= 2
    /\ stack[1].tree = genTree

\* the position of the first occurrence of a wildcard among the wildcards of a tree
FirstOccurrence(ws, w) == CHOOSE i \in 1..Len(ws) : ws[i] = w /\ \A j \in 1..(i - 1) : ws[j] # w
\* the wildcards that must differ from w and occur before it
EarlierOthers(ws, w) ==
    {o \in Range(ws) : /\ CoIndexed(o, w)
                       /\ o.id # w.id
                       /\ FirstOccurrence(ws, o) < FirstOccurrence(ws, w)}
\* the constraint map holds, under every wildcard with an id, the earlier others
BackwardsMap(tree) ==
    LET ws == get_wildcards(tree)
        constraints == build_constraints(ws, EmptyDict)
    IN /\ DOMAIN constraints = {w \in Range(ws) : w.id # 0}
       /\ \A w \in DOMAIN constraints : constraints[w] = SetEntry(EarlierOthers(ws, w))
\* an activation that has a candidate left to check finds a candidate value,
\* not a set, under every wildcard its own wildcard is constrained by
ChecksResolved(kb, f) ==
    LET ws == get_wildcards(f.tree)
        w == Head(ws)
    IN (ws # <<>> /\ f.next <= Len(kb[w.name]) /\ w \in DOMAIN f.constraints)
          => \A other \in f.constraints[w].set : ~f.constraints[other].isSet

\* C15 (Constraints only point backwards): the constraint map built for the
\* tree holds under each wildcard with an id exactly the wildcards of its name
\* with another non-empty id that occur earlier; and whenever an activation of
\* the search is about to check a candidate against constraints[other], that
\* entry is a candidate value, not a set.
C15_PointBackwards ==
    genState = "live" =>
        /\ BackwardsMap(genTree)
        /\ \A k \in 1..Len(stack) : ChecksResolved(knowledge_base, stack[k])

\* C15 on the trees in which no wildcard with an id occurs twice
C15_WithoutRepetition ==
    (genState = "live" /\ DuplicateFree(SelectSeq(get_wildcards(genTree), LAMBDA w : w.id # 0)))
        => /\ BackwardsMap(genTree)
           /\ \A k \in 1..Len(stack) : ChecksResolved(knowledge_base, stack[k])

\* C16 (Assertion validity): the search never ends in the AssertionError of
\* its "assert False" branch: in every activation the first remaining wildcard
\* of the tree has, when it has an entry in the activation's constraint map,
\* a set there and not a candidate value.
C16_AssertionUnreachable ==
    /\ genState # "raised"
    /\ \A k \in 1..Len(stack) :
          LET ws == get_wildcards(stack[k].tree)
          IN (ws # <<>> /\ Head(ws) \in DOMAIN stack[k].constraints)
                => stack[k].constraints[Head(ws)].isSet

\* groundings were yielded for a tree that holds the id-less person wildcard
\* twice, around a person wildcard with an id
C16_Witness ==
    /\ genState = "exhausted"
    /\ yielded # <<>>
    /\ get_wildcards(genTree)
          = <<WildCard("person", 0), WildCard("person", 1), WildCard("person", 0)>>

\* g is the input with each wildcard replaced by a candidate of its name and
\* everything else as it is
RECURSIVE GroundingOf(_, _, _)
GroundingOf(g, input, kb) ==
    IF input.kind = "wildcard"
    THEN g.kind = "value" /\ g.kids = <<>> /\ g.name \in Range(kb[input.name])
    ELSE /\ g.kind = input.kind
         /\ g.name = input.name
         /\ g.id = input.id
         /\ Len(g.kids) = Len(input.kids)
         /\ \A i \in 1..Len(input.kids) : GroundingOf(g.kids[i], input.kids[i], kb)
RECURSIVE HoldsWildcard(_)
HoldsWildcard(node) ==
    node.kind = "wildcard" \/ \E i \in 1..Len(node.kids) : HoldsWildcard(node.kids[i])

\* C17: every tree yielded holds no wildcard and is the input tree with each
\* wildcard replaced by a value of the knowledge base's list for its name,
\* all else equal to the input; a tree without wildcards is yielded unchanged
\* and is all its generator yields.
C17_CompleteGrounding ==
    /\ \A k \in 1..Len(yielded) :
          /\ ~HoldsWildcard(yielded[k])
          /\ GroundingOf(yielded[k], genTree, knowledge_base)
    /\ (genState = "exhausted" /\ ~HoldsWildcard(genTree)) => yielded = <<genTree>>

\* the generator is exhausted after several groundings of a tree with
\* wildcards of two names whose candidate lists differ
C17_Witness ==
    /\ genState = "exhausted"
    /\ Len(yielded) >= 2
    /\ \E w, v \in Range(get_wildcards(genTree)) : w.name # v.name
    /\ Range(knowledge_base["person"]) # Range(knowledge_base["object"])

\* the generator of a tree without wildcards is exhausted
C17_WitnessNoWildcard ==
    /\ genState = "exhausted"
    /\ ~HoldsWildcard(genTree)
    /\ yielded = <<genTree>>

\* what is left to do never grows along the suspended activations: a branch
\* holds fewer wildcards than its caller, and no activation is past the end of
\* its candidate list by more than the step that ends it
Decreasing ==
    /\ \A k \in 1..(Len(stack) - 1) :
          Len(get_wildcards(stack[k + 1].tree)) < Len(get_wildcards(stack[k].tree))
    /\ \A k \in 1..Len(stack) :
          LET ws == get_wildcards(stack[k].tree)
          IN /\ Len(ws) <= Len(get_wildcards(genTree))
             /\ ws # <<>> => stack[k].next <= Len(knowledge_base[Head(ws).name]) + 1
    /\ Len(stack) <= Len(get_wildcards(genTree)) + 1

\* C18 (Termination): every recursive step leaves fewer wildcards than its
\* caller has and no activation runs past its candidate list; and a generator
\* whose consumer keeps pulling is eventually exhausted.
C18_Termination ==
    /\ []Decreasing
    /\ (genState = "live") ~> (genState = "exhausted")

\* the generator of a tree with as many wildcards as the bound allows is
\* exhausted after yielding several groundings
C18_Witness ==
    /\ genState = "exhausted"
    /\ stack = <<>>
    /\ Len(get_wildcards(genTree)) = MaxWildcards
    /\ Len(yielded) >= 2

InitGround ==
    /\ knowledge_base = NoKnowledgeBase
    /\ genTree = NoTree
    /\ genState = "none"
    /\ stack = <<>>
    /\ yielded = <<>>
    /\ grounded = NoGround

InitLoader ==
    /\ rules = EmptyDict
    /\ semantics = EmptyDict
    /\ lastCall = NoCall
    /\ ruleLines = <<>>
    /\ registered = <<>>
    /\ linesRead = 0

Init == InitGround /\ InitLoader

NextGround == SetKnowledgeBase \/ GenerateGroundings \/ Pull \/ Ground

Next == LoadRules \/ LoadSemanticsRules \/ SetKnowledgeBase \/ GenerateGroundings \/ Pull \/ Ground

Spec == Init /\ [][Next]_vars

\* the grounding engine alone, the rule loader alone, the semantics loader alone
SpecGround == Init /\ [][NextGround]_vars
SpecRules == Init /\ [][LoadRules]_vars
SpecSemantics == Init /\ [][LoadSemanticsRules]_vars

\* the generator alone: created, then pulled until it ends
NextSearch == SetKnowledgeBase \/ GenerateGroundings \/ Pull
SpecSearch == Init /\ [][NextSearch]_vars

\* the generator with a consumer that keeps pulling: next() is called again
\* as long as the generator is live
SpecSearchFair == SpecSearch /\ WF_vars(Pull)

\* both loaders
NextLoaders == LoadRules \/ LoadSemanticsRules
SpecLoaders == Init /\ [][NextLoaders]_vars
====
